---- MODULE Spec2Model ----
(***************************************************************************)
(* The /extract pipelines of the InfoExtractor services:                   *)
(*   "LLM"  using_LLM.py    cache lookup, fetch, LLM completion, cache     *)
(*   "APP"  app.py          fetch, rules, NER, LLM gap filling, merge      *)
(*   "ML"   using_ML.py     fetch, rules                                   *)
(*   "NER"  using_HGBert.py fetch, NER, price, images                      *)
(* One request is a sequence of steps of one worker; the CSV cache file    *)
(* (data.csv) and the process environment are shared.                      *)
(***************************************************************************)
EXTENDS Integers, Sequences, FiniteSets, TLC

\* ------------------------------------------------------------------ bounds
\* data rows the cache file may hold before new requests stop being accepted
MaxRows == 2
\* request workers of the hosting server
NumWorkers == 2

Workers == 1 .. NumWorkers

\* ------------------------------------------------------- Python/JSON values
\* Python None; no text value of the model uses this string.
NoneVal == "None"

\* an optional value: <<>> is absent (None), <<x>> is present
Some(x) == <<x>>

\* the empty JSON object / dict {}
EmptyObj == <<>>

\* truthiness of a dict-or-None value held as an optional (if cached:)
Truthy(opt) == opt # <<>> /\ DOMAIN opt[1] # {}

\* truthiness of a str-or-None value (not result.get(k))
Falsy(v) == v = NoneVal \/ v = ""

\* dict.update: keys of upd replace or extend those of base
Update(base, upd) ==
    [k \in DOMAIN base \cup DOMAIN upd |->
        IF k \in DOMAIN upd THEN upd[k] ELSE base[k]]

\* json.dumps of an object: its text, held as the set of key/value members
Dumps(obj) == {<<k, obj[k]>> : k \in DOMAIN obj}

\* json.loads of the text of an object
Loads(text) ==
    [k \in {m[1] : m \in text} |-> (CHOOSE m \in text : m[1] = k)[2]]

\* s.startswith(p) on character sequences
StartsWith(s, p) == Len(s) >= Len(p) /\ SubSeq(s, 1, Len(p)) = p

\* seq[:n]
Take(seq, n) == SubSeq(seq, 1, IF Len(seq) < n THEN Len(seq) ELSE n)

\* [F(seq[1]), F(seq[2]), ...]
MapSeq(seq, F(_)) == [i \in 1 .. Len(seq) |-> F(seq[i])]

\* concatenation of a sequence of sequences
RECURSIVE Flatten(_)
Flatten(seqs) ==
    IF seqs = <<>> THEN <<>> ELSE Head(seqs) \o Flatten(Tail(seqs))

\* --------------------------------------------------------------- documents
\* A fetched page is a flat sequence of elements.  text is the element's
\* text as lower-cased word tokens, len its length in characters, src the
\* src attribute as a character sequence (<<>> when missing or empty).
Elem(tag, text, len, src) == [tag |-> tag, text |-> text, len |-> len, src |-> src]

SrcJpg  == <<"a", ".", "j", "p", "g">>
SrcData == <<"d", "a", "t", "a", ":", "x">>

RichPage ==
    << Elem("h1", <<"civic">>, 5, <<>>),
       Elem("div", <<"engine", "2.0l", "$19,499">>, 120, <<>>),
       Elem("section", <<"interior", "leather">>, 100, <<>>),
       Elem("script", <<"var", "$1">>, 7, <<>>),
       Elem("header", <<"menu">>, 4, <<>>),
       Elem("img", <<>>, 0, SrcJpg),
       Elem("img", <<>>, 0, SrcData),
       Elem("li", <<"sunroof">>, 7, <<>>) >>

BarePage == << Elem("p", <<"hello">>, 5, <<>>) >>

\* a page with repeated blocks and list items, an aside, a noscript and
\* eleven images
BusyPage ==
    << Elem("div", <<"interior", "leather", "display">>, 100, <<>>),
       Elem("div", <<"interior", "leather", "display">>, 100, <<>>),
       Elem("aside", <<"sponsored", "$1">>, 12, <<>>),
       Elem("noscript", <<"enable", "javascript">>, 17, <<>>),
       Elem("li", <<"leather", "seats">>, 13, <<>>),
       Elem("li", <<"leather", "seats">>, 13, <<>>),
       Elem("li", <<"sunroof">>, 7, <<>>) >>
    \o [i \in 1 .. 11 |-> Elem("img", <<>>, 0, <<"i", "m", "g">> \o SubSeq(
            <<"a", "b", "c", "d", "e", "f", "g", "h", "i", "j", "k">>, i, i))]

Pages == {RichPage, BarePage, BusyPage}

\* request URLs; exact strings, the second is the first with a trailing slash
Urls == {"https://x.com/a", "https://x.com/a/"}

\* u without one trailing slash (used by no code of the services)
StripSlash(u) == IF u = "https://x.com/a/" THEN "https://x.com/a" ELSE u

\* request bodies: no JSON body, a body without url, a body with url
Bodies == {<<>>, Some(EmptyObj), Some([other |-> "x"])}
              \cup {Some([url |-> u]) : u \in Urls}

Variants == {"LLM", "APP", "ML", "NER"}

\* ------------------------------------------------------- program constants
ContentLimit  == 8000
ContextLimit  == 2500
NerWindow     == 3000
FeatureCapApp == 5
FeatureCapMl  == 20
ImageCap      == 10
CandidateCap  == 10
EntityCapApp  == 10
EntityCapNer  == 15

\* tokens that the price pattern (currency marker, amount) matches
PriceTokens == {"$19,499", "$1"}

FeatureWords == {"feature", "equipped", "interior", "technology",
                 "design", "assistant", "display"}

SpecWords == {"km/h", "hp", "kw", "engine", "fuel", "acceleration",
              "consumption"}

DataPrefix == <<"d", "a", "t", "a", ":">>

\* ------------------------------------------------------------ sanitization
\* the tag lists handed to soup([...]) / decompose()
NoiseTagsLLM == {"script", "style", "nav", "footer"}
NoiseTagsML  == {"script", "style", "nav", "footer", "aside", "noscript"}
NoiseTagsApp == NoiseTagsML \cup {"header"}

Decompose(soup, tags) == SelectSeq(soup, LAMBDA e : e.tag \notin tags)

clean_soup(soup, variant) ==
    Decompose(soup, IF variant = "APP" THEN NoiseTagsApp ELSE NoiseTagsML)

\* soup.get_text(...): the text of all elements, in document order
get_text(soup) == Flatten(MapSeq(soup, LAMBDA e : e.text))

find_all(soup, tags) == SelectSeq(soup, LAMBDA e : e.tag \in tags)

\* ---------------------------------------------------- rule-based extraction
\* re.search of the price pattern: the first match, or None
extract_price(text) ==
    LET hits == SelectSeq(text, LAMBDA t : t \in PriceTokens)
    IN  IF hits = <<>> THEN NoneVal ELSE hits[1]

HasSrc(e) == e.src # <<>>

extract_images(soup) ==
    MapSeq(SelectSeq(find_all(soup, {"img"}),
                     LAMBDA e : HasSrc(e) /\ ~StartsWith(e.src, DataPrefix)),
           LAMBDA e : e.src)

ContainsAny(text, words) == \E i \in 1 .. Len(text) : text[i] \in words

extract_features(soup) ==
    Take(MapSeq(SelectSeq(find_all(soup, {"section", "div"}),
                          LAMBDA e : /\ 80 < e.len /\ e.len < 600
                                     /\ ContainsAny(e.text, FeatureWords)),
                LAMBDA e : e.text),
         FeatureCapApp)

\* f"block_{n}"
BlockKey(n) == <<"block_1", "block_2", "block_3", "block_4">>[n]

extract_spec_blocks(soup) ==
    LET blocks == SelectSeq(find_all(soup, {"div"}),
                            LAMBDA e : /\ ContainsAny(e.text, SpecWords)
                                       /\ e.len < 500)
    IN  [k \in {BlockKey(i) : i \in 1 .. Len(blocks)} |->
            blocks[CHOOSE i \in 1 .. Len(blocks) : BlockKey(i) = k].text]

rule_based_extract(soup) ==
    [price          |-> extract_price(get_text(soup)),
     features       |-> extract_features(soup),
     specifications |-> extract_spec_blocks(soup),
     images         |-> extract_images(soup)]

\* first occurrences, in order (list(dict.fromkeys(seq)))
RECURSIVE Dedupe(_)
Dedupe(seq) ==
    IF seq = <<>> THEN <<>>
    ELSE LET front == Dedupe(SubSeq(seq, 1, Len(seq) - 1))
             last  == seq[Len(seq)]
         IN  IF \E i \in 1 .. Len(front) : front[i] = last
             THEN front ELSE Append(front, last)

\* using_ML.py: the data of a successful extraction
extract_car_data_rule_based_data(soup0) ==
    LET soup   == clean_soup(soup0, "ML")
        titles == find_all(soup, {"title"})
        h1s    == find_all(soup, {"h1"})
        rows   == SelectSeq(find_all(soup, {"tr"}),
                            LAMBDA e : /\ Len(e.text) = 2
                                       /\ e.text[1] # "" /\ e.text[2] # "")
        lis    == SelectSeq(find_all(soup, {"li"}),
                            LAMBDA e : 5 < e.len /\ e.len < 80)
        imgs   == SelectSeq(find_all(soup, {"img"}),
                            LAMBDA e : HasSrc(e) /\ ~StartsWith(e.src, DataPrefix))
    IN  [model_name     |-> IF h1s # <<>> THEN Some(h1s[1].text)
                            ELSE IF titles # <<>> THEN Some(titles[1].text)
                            ELSE <<>>,
         price          |-> extract_price(get_text(soup)),
         specifications |-> [k \in {rows[i].text[1] : i \in 1 .. Len(rows)} |->
                               rows[CHOOSE i \in 1 .. Len(rows) :
                                      /\ rows[i].text[1] = k
                                      /\ \A j \in i + 1 .. Len(rows) :
                                            rows[j].text[1] # k].text[2]],
         features       |-> Take(Dedupe(MapSeq(lis, LAMBDA e : e.text)), FeatureCapMl),
         images         |-> Take(MapSeq(imgs, LAMBDA e : e.src), ImageCap)]

\* ------------------------------------------------------ entity recognition
Entity(word, group) == [word |-> word, entity_group |-> group]

\* outputs of ner(text) (aggregation_strategy="simple")
NerOutputs ==
    { <<>>,
      << Entity("honda", "ORG"), Entity("tokyo", "LOC"),
         Entity("civic", "MISC"), Entity("honda", "ORG") >> }

\* the words of the ORG / MISC entities, as a set ({e["word"] for e ...})
CandidateSet(entities) ==
    {entities[i].word : i \in {j \in 1 .. Len(entities) :
                                 entities[j].entity_group \in {"ORG", "MISC"}}}

\* list(a_set): the elements in an order the hash seed decides
Listings(S) ==
    {q \in [1 .. Cardinality(S) -> S] : \A i, j \in DOMAIN q : q[i] = q[j] => i = j}

\* app.py ner_enrichment, given the recognizer output and the listing
ner_enrichment(entities, listing) ==
    [model_candidates |-> Take(listing, CandidateCap),
     entities         |-> Take(entities, EntityCapApp)]

\* ----------------------------------------------------------- LLM completion
GapFields == [model_name |-> "Civic", variant |-> "LX", description |-> "sedan"]

Overwriting ==
    [model_name |-> "Civic", variant |-> "LX", description |-> "sedan",
     price |-> "$1",
     specifications |-> [block_1 |-> <<"engine", "1.8l">>],
     features |-> << <<"abs">> >>,
     images |-> << <<"b", ".", "p", "n", "g">> >>]

\* JSON objects a completion may carry
Payloads == {EmptyObj, GapFields, Overwriting}

\* completion.choices[0].message.content: the text of a JSON object or not JSON
Contents ==
    {[json |-> TRUE, text |-> Dumps(p)] : p \in Payloads}
        \cup {[json |-> FALSE, text |-> {}]}

\* completion.usage
Usages == {[prompt_tokens |-> 10, completion_tokens |-> 5, total_tokens |-> 15]}

\* str(n) for the token counts
Str(n) == CASE n = 5 -> "5" [] n = 10 -> "10" [] n = 15 -> "15" [] OTHER -> "0"

\* ------------------------------------------------------------ the CSV cache
Header == <<"url", "prompt_tokens", "completion_tokens", "total_tokens",
            "response_json">>

\* the row save_to_csv writes
CsvRow(url, usage, response_json) ==
    <<url, Str(usage.prompt_tokens), Str(usage.completion_tokens),
      Str(usage.total_tokens), Dumps(response_json)>>

\* ------------------------------------------------------------------- state
VARIABLES
    started,        \* how using_LLM.py was brought up: "no", "main", "import"
    api_key,        \* whether OPENAI_API_KEY is set in the environment
    csv_exists,     \* Path(CSV_FILE).exists()
    csv_header,     \* whether the first line of the file is the header row
    csv_rows,       \* the rows appended by save_to_csv, in file order
    pc,             \* per worker: the stage its request is at
    variant,        \* per worker: the service the request was sent to
    body,           \* per worker: request.get_json()
    local,          \* per worker: the local variables of the handler
    result,         \* per worker: the value the extraction function returned
    response,       \* per worker: the HTTP response, once sent
    events,         \* per worker: external calls and cache accesses so far
    rows_at_start,  \* per worker: csv_rows when the request arrived
    prior,          \* per worker: first_record of its URL when it arrived
    first_record,   \* per URL: data of the first successful LLM-variant response
    price_text,     \* a cleaned document text, as characters
    price_variant,  \* the variant whose price extraction ran on price_text
    price_out,      \* the optional match that extraction returned
    price_pc        \* "off", "in" (text given), "out" (extraction done)

vars == <<started, api_key, csv_exists, csv_header, csv_rows, pc, variant,
          body, local, result, response, events, rows_at_start, prior,
          first_record, price_text, price_variant, price_out, price_pc>>

price_vars == <<price_text, price_variant, price_out, price_pc>>

csv_vars == <<csv_exists, csv_header, csv_rows>>

NoLocals ==
    [url |-> "", soup |-> <<>>, images |-> <<>>, content |-> <<>>,
     prompt |-> <<>>, completion |-> <<>>, rule_data |-> <<>>,
     ner_data |-> <<>>, working |-> <<>>, llm_used |-> FALSE]

Init ==
    /\ started = "no"
    /\ api_key \in BOOLEAN
    /\ csv_exists = FALSE
    /\ csv_header = FALSE
    /\ csv_rows = <<>>
    /\ pc = [w \in Workers |-> "idle"]
    /\ variant = [w \in Workers |-> "LLM"]
    /\ body = [w \in Workers |-> <<>>]
    /\ local = [w \in Workers |-> NoLocals]
    /\ result = [w \in Workers |-> EmptyObj]
    /\ response = [w \in Workers |-> <<>>]
    /\ events = [w \in Workers |-> <<>>]
    /\ rows_at_start = [w \in Workers |-> <<>>]
    /\ prior = [w \in Workers |-> <<>>]
    /\ first_record = [u \in Urls |-> <<>>]
    /\ price_text = <<>>
    /\ price_variant = "APP"
    /\ price_out = <<>>
    /\ price_pc = "off"

req_vars == <<pc, variant, body, local, result, response, events,
              rows_at_start, prior, first_record>>

\* ---------------------------------------------------------------- start-up
\* python using_LLM.py: the __main__ block runs init_csv() before app.run
StartMain ==
    /\ started = "no"
    /\ started' = "main"
    /\ csv_exists' = TRUE
    /\ csv_header' = (IF csv_exists THEN csv_header ELSE TRUE)
    /\ UNCHANGED <<price_vars, api_key, csv_rows, req_vars>>

\* the module is imported by a WSGI server: the __main__ block does not run
StartImported ==
    /\ started = "no"
    /\ started' = "import"
    /\ UNCHANGED <<price_vars, api_key, csv_vars, req_vars>>

\* ------------------------------------------------------------ cache access
\* csv.DictReader: the column names and the rows it yields
Fieldnames ==
    IF csv_header THEN Header
    ELSE IF csv_rows = <<>> THEN <<>> ELSE csv_rows[1]

DataRows == IF csv_header \/ csv_rows = <<>> THEN csv_rows ELSE Tail(csv_rows)

\* the position of column name in a row dict, 0 if there is no such key;
\* cell 5 of a data row is a JSON text, which is no column name
Column(name) ==
    LET named == {i \in 1 .. Len(Fieldnames) :
                    IF i = 5 THEN csv_header /\ Header[5] = name
                    ELSE Fieldnames[i] = name}
    IN  IF named = {} THEN 0 ELSE CHOOSE i \in named : \A j \in named : j <= i

\* a comparison that ignores one trailing slash
UrlMatchesNormalized(stored, url) == StripSlash(stored) = StripSlash(url)

\* row["url"] == url
UrlMatches(stored, url) == stored = url

\* get_cached_result(url): exc is the exception raised ("" if none),
\* value the optional record returned
get_cached_result(url) ==
    IF ~csv_exists \/ DataRows = <<>> THEN [exc |-> "", value |-> <<>>]
    ELSE IF Column("url") = 0 THEN [exc |-> "'url'", value |-> <<>>]
    ELSE LET hits == {i \in 1 .. Len(DataRows) :
                        UrlMatches(DataRows[i][Column("url")], url)}
         IN  IF hits = {} THEN [exc |-> "", value |-> <<>>]
             ELSE IF Column("response_json") = 0
                  THEN [exc |-> "'response_json'", value |-> <<>>]
             ELSE LET first == CHOOSE i \in hits : \A j \in hits : i <= j
                  IN  [exc |-> "",
                       value |-> Some(Loads(DataRows[first][Column("response_json")]))]

\* the file opened with mode "w": the new row replaces the rows
save_overwrite(rows, url, usage, response_json) ==
    <<CsvRow(url, usage, response_json)>>

\* save_to_csv: open(CSV_FILE, "a") creates the file if needed, one row appended
save_to_csv(rows, url, usage, response_json) ==
    Append(rows, CsvRow(url, usage, response_json))

\* ------------------------------------------------------------ one request
\* {"success": False, "error": str(e)}
Failure(msg) == [success |-> FALSE, error |-> msg]

\* {"success": True, "data": data}
Success(data) == [success |-> TRUE, data |-> data]

\* not data or "url" not in data
MissingUrl(b) == b = <<>> \/ DOMAIN b[1] = {} \/ "url" \notin DOMAIN b[1]

\* every service starts with the fetch
FirstStageFetch(v) == "fetch"

\* the first stage of a valid request: only using_LLM.py consults the cache
FirstStage(v) == IF v = "LLM" THEN "lookup" ELSE "fetch"

\* a stage that raised is run again
OnErrorRetry(v, stage) == stage

\* where a stage that raised continues: the except clause of the extraction
\* function builds the failure result; extract in app.py has no try/except
OnError(v, stage) == IF v = "APP" THEN "raise" ELSE "return"

Log(w, e) == events' = [events EXCEPT ![w] = Append(@, e)]

\* a request arrives at POST /extract of service v with JSON body b
Start(w) ==
    /\ started # "no"
    /\ pc[w] = "idle"
    /\ Len(csv_rows) < MaxRows
    /\ \E v \in Variants, b \in Bodies :
         /\ variant' = [variant EXCEPT ![w] = v]
         /\ body' = [body EXCEPT ![w] = b]
         /\ rows_at_start' = [rows_at_start EXCEPT ![w] = csv_rows]
         /\ IF MissingUrl(b)
            THEN /\ response' = [response EXCEPT ![w] =
                        Some([status |-> 400, body |-> Failure("Missing url")])]
                 /\ pc' = [pc EXCEPT ![w] = "done"]
                 /\ UNCHANGED <<local, prior>>
            ELSE /\ local' = [local EXCEPT ![w].url = b[1].url]
                 /\ prior' = [prior EXCEPT ![w] =
                        IF v = "LLM" THEN first_record[b[1].url] ELSE <<>>]
                 /\ pc' = [pc EXCEPT ![w] = FirstStage(v)]
                 /\ UNCHANGED response
    /\ UNCHANGED <<price_vars, started, api_key, csv_vars, result, events, first_record>>

\* requests are handled one after another
StartAlone(w) ==
    /\ \A v \in Workers : pc[v] = "idle"
    /\ Start(w)

\* the response has been sent; the worker is free again
Finish(w) ==
    /\ pc[w] = "done"
    /\ pc' = [pc EXCEPT ![w] = "idle"]
    /\ body' = [body EXCEPT ![w] = <<>>]
    /\ local' = [local EXCEPT ![w] = NoLocals]
    /\ result' = [result EXCEPT ![w] = EmptyObj]
    /\ response' = [response EXCEPT ![w] = <<>>]
    /\ events' = [events EXCEPT ![w] = <<>>]
    /\ rows_at_start' = [rows_at_start EXCEPT ![w] = <<>>]
    /\ prior' = [prior EXCEPT ![w] = <<>>]
    /\ variant' = [variant EXCEPT ![w] = "LLM"]
    /\ UNCHANGED <<price_vars, started, api_key, csv_vars, first_record>>

\* ------------------------------------------------- using_LLM.py: /extract
\* if cached:
CacheHit(cached) == Truthy(cached)

\* extract_car_data, step 1: cache lookup
LLM_Lookup(w) ==
    /\ pc[w] = "lookup" /\ variant[w] = "LLM"
    /\ Log(w, "lookup")
    /\ LET r == get_cached_result(local[w].url)
       IN  IF r.exc # ""
           THEN /\ result' = [result EXCEPT ![w] = Failure(r.exc)]
                /\ pc' = [pc EXCEPT ![w] = OnError("LLM", "lookup")]
           ELSE IF CacheHit(r.value)
           THEN /\ result' = [result EXCEPT ![w] = Success(r.value[1])]
                /\ pc' = [pc EXCEPT ![w] = "return"]
           ELSE /\ pc' = [pc EXCEPT ![w] = "fetch"]
                /\ UNCHANGED result
    /\ UNCHANGED <<price_vars, started, api_key, csv_vars, variant, body, local, response,
                   rows_at_start, prior, first_record>>

\* requests.get(url, timeout=10); raise_for_status(); BeautifulSoup(...)
LLM_Fetch(w) ==
    /\ pc[w] = "fetch" /\ variant[w] = "LLM"
    /\ Log(w, "fetch")
    /\ \/ \E msg \in {"connection error", "404 Client Error"} :
            /\ result' = [result EXCEPT ![w] = Failure(msg)]
            /\ pc' = [pc EXCEPT ![w] = OnError("LLM", "fetch")]
            /\ UNCHANGED local
       \/ \E page \in Pages :
            /\ local' = [local EXCEPT ![w].soup = page]
            /\ pc' = [pc EXCEPT ![w] = "clean"]
            /\ UNCHANGED result
    /\ UNCHANGED <<price_vars, started, api_key, csv_vars, variant, body, response,
                   rows_at_start, prior, first_record>>

\* steps 3 to 6 and the prompt: clean, images, text, API key
LLM_Prepare(w) ==
    /\ pc[w] = "clean" /\ variant[w] = "LLM"
    /\ LET soup    == Decompose(local[w].soup, NoiseTagsLLM)
           images  == MapSeq(SelectSeq(find_all(soup, {"img"}), HasSrc),
                             LAMBDA e : e.src)
           content == get_text(soup)
       IN  IF ~api_key
           THEN /\ result' = [result EXCEPT ![w] = Failure("OPENAI_API_KEY not found")]
                /\ pc' = [pc EXCEPT ![w] = OnError("LLM", "clean")]
                /\ local' = [local EXCEPT ![w].soup = soup, ![w].images = images,
                                          ![w].content = content]
           ELSE /\ local' = [local EXCEPT ![w].soup = soup, ![w].images = images,
                                          ![w].content = content,
                                          ![w].prompt = Some([content |-> Take(content, ContentLimit),
                                                              images |-> images])]
                /\ pc' = [pc EXCEPT ![w] = "llm"]
                /\ UNCHANGED result
    /\ UNCHANGED <<price_vars, started, api_key, csv_vars, variant, body, response, events,
                   rows_at_start, prior, first_record>>

\* step 7: client.chat.completions.create(...)
LLM_Complete(w) ==
    /\ pc[w] = "llm" /\ variant[w] = "LLM"
    /\ Log(w, "llm")
    /\ \/ /\ result' = [result EXCEPT ![w] = Failure("service error")]
          /\ pc' = [pc EXCEPT ![w] = OnError("LLM", "llm")]
          /\ UNCHANGED local
       \/ \E c \in Contents, u \in Usages :
            /\ local' = [local EXCEPT ![w].completion = Some([content |-> c, usage |-> u])]
            /\ pc' = [pc EXCEPT ![w] = "parse"]
            /\ UNCHANGED result
    /\ UNCHANGED <<price_vars, started, api_key, csv_vars, variant, body, response,
                   rows_at_start, prior, first_record>>

\* save_to_csv placed before json.loads: the row is written whatever the content
RowsAfterParseAlways(rows, url, completion) ==
    save_to_csv(rows, url, completion.usage, Loads(completion.content.text))

\* the rows of the file after steps 9 and 10: json.loads raises before
\* save_to_csv is reached when the content is not JSON
RowsAfterParse(rows, url, completion) ==
    IF completion.content.json
    THEN save_to_csv(rows, url, completion.usage, Loads(completion.content.text))
    ELSE rows

\* steps 9 and 10: json.loads, save_to_csv, return
LLM_ParseSave(w) ==
    /\ pc[w] = "parse" /\ variant[w] = "LLM"
    /\ LET completion == local[w].completion[1]
           rows == RowsAfterParse(csv_rows, local[w].url, completion)
       IN  /\ csv_rows' = rows
           /\ csv_exists' = (csv_exists \/ rows # csv_rows)
           /\ IF rows # csv_rows THEN Log(w, "store") ELSE UNCHANGED events
           /\ IF completion.content.json
              THEN /\ result' = [result EXCEPT ![w] = Success(Loads(completion.content.text))]
                   /\ pc' = [pc EXCEPT ![w] = "return"]
              ELSE /\ result' = [result EXCEPT ![w] = Failure("Expecting value")]
                   /\ pc' = [pc EXCEPT ![w] = OnError("LLM", "parse")]
    /\ UNCHANGED <<price_vars, started, api_key, csv_header, variant, body, local, response,
                   rows_at_start, prior, first_record>>

\* the status extract() of using_LLM.py gives a result
StatusLLM(res) == IF res.success THEN 200 ELSE 500

\* extract(): jsonify(result), 200 or 500
LLM_Respond(w) ==
    /\ pc[w] = "return" /\ variant[w] = "LLM"
    /\ response' = [response EXCEPT ![w] =
            Some([status |-> StatusLLM(result[w]), body |-> result[w]])]
    /\ first_record' =
            IF result[w].success /\ first_record[local[w].url] = <<>>
            THEN [first_record EXCEPT ![local[w].url] = Some(result[w].data)]
            ELSE first_record
    /\ pc' = [pc EXCEPT ![w] = "done"]
    /\ UNCHANGED <<price_vars, started, api_key, csv_vars, variant, body, local, result,
                   events, rows_at_start, prior>>

\* ------------------------------------------------------- app.py: /extract
RequiredFields == {"model_name", "variant", "description"}

\* step 4: the combined base result
BaseResult(rule_data, ner_data) ==
    [model_name     |-> NoneVal,
     variant        |-> NoneVal,
     price          |-> rule_data.price,
     specifications |-> rule_data.specifications,
     features       |-> rule_data.features,
     images         |-> rule_data.images,
     description    |-> NoneVal,
     ner            |-> ner_data]

\* the missing test with the fields taken as always present
missing_never(working) == FALSE

\* missing = any(not result.get(k) for k in (...))
missing(working) == \E k \in RequiredFields : Falsy(working[k])

\* result.update(make_json_safe(llm_data))
Merge(working, llm_data) == Update(working, llm_data)

\* the values of a dict, in key order (list(d.values()))
Values(d) ==
    LET n == Cardinality(DOMAIN d)
    IN  [i \in 1 .. n |-> d[BlockKey(i)]]

\* steps 1 and 2: fetch_html_js, clean_soup, rule_based_extract, get_text
APP_Fetch(w) ==
    /\ pc[w] = "fetch" /\ variant[w] = "APP"
    /\ Log(w, "fetch")
    /\ \/ /\ result' = [result EXCEPT ![w] = Failure("Timeout 30000ms exceeded")]
          /\ pc' = [pc EXCEPT ![w] = OnError("APP", "fetch")]
          /\ UNCHANGED local
       \/ \E page \in Pages :
            LET soup == clean_soup(page, "APP")
            IN  /\ local' = [local EXCEPT ![w].soup = soup,
                                          ![w].rule_data = rule_based_extract(soup),
                                          ![w].images = extract_images(soup),
                                          ![w].content = get_text(soup)]
                /\ pc' = [pc EXCEPT ![w] = "ner"]
                /\ UNCHANGED result
    /\ UNCHANGED <<price_vars, started, api_key, csv_vars, variant, body, response,
                   rows_at_start, prior, first_record>>

\* steps 3 to 5: ner_enrichment, the base result, the missing test
APP_Ner(w) ==
    /\ pc[w] = "ner" /\ variant[w] = "APP"
    /\ Log(w, "ner")
    /\ \/ /\ result' = [result EXCEPT ![w] = Failure("recognizer error")]
          /\ pc' = [pc EXCEPT ![w] = OnError("APP", "ner")]
          /\ UNCHANGED local
       \/ \E entities \in NerOutputs :
            \E listing \in Listings(CandidateSet(entities)) :
               LET ner_data == ner_enrichment(entities, listing)
                   working  == BaseResult(local[w].rule_data, ner_data)
               IN  /\ local' = [local EXCEPT ![w].ner_data = ner_data,
                                             ![w].working = working,
                                             ![w].llm_used = missing(working)]
                   /\ pc' = [pc EXCEPT ![w] = IF missing(working) THEN "llm" ELSE "return"]
                   /\ UNCHANGED result
    /\ UNCHANGED <<price_vars, started, api_key, csv_vars, variant, body, response,
                   rows_at_start, prior, first_record>>

\* llm_fallback(result, context) and result.update(...)
APP_Fill(w) ==
    /\ pc[w] = "llm" /\ variant[w] = "APP"
    /\ Log(w, "llm")
    /\ LET working == local[w].working
           context == working.features \o Values(working.specifications)
           prompt  == Some([partial |-> working, context |-> Take(context, ContextLimit)])
       IN  \/ \E msg \in {"service error", "Expecting value"} :
                /\ result' = [result EXCEPT ![w] = Failure(msg)]
                /\ pc' = [pc EXCEPT ![w] = OnError("APP", "llm")]
                /\ local' = [local EXCEPT ![w].prompt = prompt]
           \/ \E c \in {x \in Contents : x.json} :
                /\ local' = [local EXCEPT ![w].prompt = prompt,
                                          ![w].completion = Some([content |-> c]),
                                          ![w].working = Merge(working, Loads(c.text))]
                /\ pc' = [pc EXCEPT ![w] = "return"]
                /\ UNCHANGED result
    /\ UNCHANGED <<price_vars, started, api_key, csv_vars, variant, body, response,
                   rows_at_start, prior, first_record>>

\* return jsonify({"success": True, "llm_used": llm_used, "data": result})
APP_Respond(w) ==
    /\ pc[w] = "return" /\ variant[w] = "APP"
    /\ response' = [response EXCEPT ![w] =
            Some([status |-> 200,
                  body |-> [success |-> TRUE, llm_used |-> local[w].llm_used,
                            data |-> local[w].working]])]
    /\ pc' = [pc EXCEPT ![w] = "done"]
    /\ UNCHANGED <<price_vars, started, api_key, csv_vars, variant, body, local, result,
                   events, rows_at_start, prior, first_record>>

\* an exception left extract(): Flask answers 500 with its own error page
APP_Abort(w) ==
    /\ pc[w] = "raise" /\ variant[w] = "APP"
    /\ response' = [response EXCEPT ![w] =
            Some([status |-> 500, body |-> [html |-> "Internal Server Error"]])]
    /\ pc' = [pc EXCEPT ![w] = "done"]
    /\ UNCHANGED <<price_vars, started, api_key, csv_vars, variant, body, local, result,
                   events, rows_at_start, prior, first_record>>

\* --------------------------------------------------- using_ML.py: /extract
\* extract_car_data_rule_based(url)
ML_Extract(w) ==
    /\ pc[w] = "fetch" /\ variant[w] = "ML"
    /\ Log(w, "fetch")
    /\ \/ \E msg \in {"connection error", "404 Client Error"} :
            /\ result' = [result EXCEPT ![w] = Failure(msg)]
            /\ pc' = [pc EXCEPT ![w] = OnError("ML", "fetch")]
            /\ UNCHANGED local
       \/ \E page \in Pages :
            /\ local' = [local EXCEPT ![w].soup = clean_soup(page, "ML")]
            /\ result' = [result EXCEPT ![w] =
                    Success(extract_car_data_rule_based_data(page))]
            /\ pc' = [pc EXCEPT ![w] = "return"]
    /\ UNCHANGED <<price_vars, started, api_key, csv_vars, variant, body, response,
                   rows_at_start, prior, first_record>>

\* return jsonify(extract_car_data_rule_based(data["url"]))
ML_Respond(w) ==
    /\ pc[w] = "return" /\ variant[w] = "ML"
    /\ response' = [response EXCEPT ![w] = Some([status |-> 200, body |-> result[w]])]
    /\ pc' = [pc EXCEPT ![w] = "done"]
    /\ UNCHANGED <<price_vars, started, api_key, csv_vars, variant, body, local, result,
                   events, rows_at_start, prior, first_record>>

\* ----------------------------------------------- using_HGBert.py: /extract
\* extract_car_data_ner, steps 1 and 2
NER_Fetch(w) ==
    /\ pc[w] = "fetch" /\ variant[w] = "NER"
    /\ Log(w, "fetch")
    /\ \/ \E msg \in {"Page load timed out (JS-heavy site)", "browser error"} :
            /\ result' = [result EXCEPT ![w] = Failure(msg)]
            /\ pc' = [pc EXCEPT ![w] = OnError("NER", "fetch")]
            /\ UNCHANGED local
       \/ \E page \in Pages :
            LET soup == clean_soup(page, "NER")
            IN  /\ local' = [local EXCEPT ![w].soup = soup,
                                          ![w].content = Take(get_text(soup), NerWindow)]
                /\ pc' = [pc EXCEPT ![w] = "ner"]
                /\ UNCHANGED result
    /\ UNCHANGED <<price_vars, started, api_key, csv_vars, variant, body, response,
                   rows_at_start, prior, first_record>>

\* extract_car_data_ner, steps 3 to 5
NER_Recognize(w) ==
    /\ pc[w] = "ner" /\ variant[w] = "NER"
    /\ Log(w, "ner")
    /\ \/ /\ result' = [result EXCEPT ![w] = Failure("recognizer error")]
          /\ pc' = [pc EXCEPT ![w] = OnError("NER", "ner")]
       \/ \E entities \in NerOutputs :
            \E listing \in Listings(CandidateSet(entities)) :
               /\ result' = [result EXCEPT ![w] = Success(
                     [possible_model_names |-> Take(listing, CandidateCap),
                      price    |-> extract_price(local[w].content),
                      entities |-> Take(entities, EntityCapNer),
                      images   |-> Take(extract_images(local[w].soup), ImageCap)])]
               /\ pc' = [pc EXCEPT ![w] = "return"]
    /\ UNCHANGED <<price_vars, started, api_key, csv_vars, variant, body, local, response,
                   rows_at_start, prior, first_record>>

\* return jsonify(extract_car_data_ner(data["url"]))
NER_Respond(w) ==
    /\ pc[w] = "return" /\ variant[w] = "NER"
    /\ response' = [response EXCEPT ![w] = Some([status |-> 200, body |-> result[w]])]
    /\ pc' = [pc EXCEPT ![w] = "done"]
    /\ UNCHANGED <<price_vars, started, api_key, csv_vars, variant, body, local, result,
                   events, rows_at_start, prior, first_record>>

Next ==
    \/ StartMain
    \/ StartImported
    \/ \E w \in Workers :
         \/ StartAlone(w)
         \/ Finish(w)
         \/ LLM_Lookup(w)
         \/ LLM_Fetch(w)
         \/ LLM_Prepare(w)
         \/ LLM_Complete(w)
         \/ LLM_ParseSave(w)
         \/ LLM_Respond(w)
         \/ APP_Fetch(w)
         \/ APP_Ner(w)
         \/ APP_Fill(w)
         \/ APP_Respond(w)
         \/ APP_Abort(w)
         \/ ML_Extract(w)
         \/ ML_Respond(w)
         \/ NER_Fetch(w)
         \/ NER_Recognize(w)
         \/ NER_Respond(w)

Spec == Init /\ [][Next]_vars

\* ------------------------------------------- the price pattern, by character
\* A text is a sequence of items [c, n]: character c repeated n times.  Only
\* the filler character "x" is ever repeated.  The rupee and euro signs are
\* written "rupee" and "euro".
\* longest text of the price specification, in items
MaxText == 4

Ch(c) == [c |-> c, n |-> 1]

\* n characters that belong to no match
Filler(n) == [c |-> "x", n |-> n]

Digits == {"0", "1", "2", "3", "4", "5", "6", "7", "8", "9"}

Spaces == {" ", "\t", "\n"}

\* (₹|\$|€|INR|USD|EUR)
Symbols == {"rupee", "$", "euro"}

Codes == {<<"I", "N", "R">>, <<"U", "S", "D">>, <<"E", "U", "R">>}

\* the character at position i of text, "" beyond its end
At(text, i) ==
    IF i >= 1 /\ i <= Len(text) /\ text[i].n = 1 THEN text[i].c ELSE ""

\* the length of the currency marker that starts at i, 0 if there is none
MarkerLen(text, i) ==
    IF At(text, i) \in Symbols THEN 1
    ELSE IF <<At(text, i), At(text, i + 1), At(text, i + 2)>> \in Codes THEN 3
    ELSE 0

\* the first position from i on whose character is not in class
RECURSIVE RunEnd(_, _, _)
RunEnd(text, i, class) ==
    IF At(text, i) \in class THEN RunEnd(text, i + 1, class) ELSE i

\* the end (exclusive) of the match of the pattern that starts at i, 0 if the
\* pattern does not match there: marker, \s?, [\d,]+, (\.\d+)?
MatchEnd(text, i) ==
    LET m  == MarkerLen(text, i)
        j  == i + m + (IF At(text, i + m) \in Spaces THEN 1 ELSE 0)
        k  == RunEnd(text, j, Digits \cup {","})
        d  == RunEnd(text, k + 1, Digits)
    IN  IF m = 0 \/ k = j THEN 0
        ELSE IF At(text, k) = "." /\ d > k + 1 THEN d
        ELSE k

\* re.search(pattern, text): group(0) of the leftmost match as an optional
price_search(text) ==
    LET starts == {i \in 1 .. Len(text) : MatchEnd(text, i) # 0}
    IN  IF starts = {} THEN <<>>
        ELSE LET i == CHOOSE a \in starts : \A b \in starts : a <= b
             IN  Some([p \in 1 .. MatchEnd(text, i) - i |-> text[i + p - 1].c])

\* text[:k]
RECURSIVE Slice(_, _)
Slice(text, k) ==
    IF text = <<>> \/ k <= 0 THEN <<>>
    ELSE IF Head(text).n <= k
         THEN <<Head(text)>> \o Slice(Tail(text), k - Head(text).n)
         ELSE <<[c |-> Head(text).c, n |-> k]>>

\* re.sub(r"\s+", " ", text)
RECURSIVE Collapse(_)
Collapse(text) ==
    IF text = <<>> THEN <<>>
    ELSE LET front == Collapse(SubSeq(text, 1, Len(text) - 1))
             last  == text[Len(text)]
         IN  IF last.c \notin Spaces THEN Append(front, last)
             ELSE IF front # <<>> /\ front[Len(front)].c = " " THEN front
             ELSE Append(front, Ch(" "))

\* the text a variant searches for the price, given its cleaned document text
SearchedText(v, text) ==
    IF v = "NER" THEN Slice(Collapse(text), NerWindow) ELSE text

\* the items texts are drawn from
TextItems ==
    {Ch(c) : c \in {"$", "I", "N", "R", " ", "1", ",", ".", "x"}}
        \cup {Filler(NerWindow)}

Texts == UNION {[1 .. n -> TextItems] : n \in 0 .. MaxText}

\* a cleaned document text is given
InitPrice ==
    /\ started = "no"
    /\ api_key = TRUE
    /\ csv_exists = FALSE
    /\ csv_header = FALSE
    /\ csv_rows = <<>>
    /\ pc = [w \in Workers |-> "idle"]
    /\ variant = [w \in Workers |-> "LLM"]
    /\ body = [w \in Workers |-> <<>>]
    /\ local = [w \in Workers |-> NoLocals]
    /\ result = [w \in Workers |-> EmptyObj]
    /\ response = [w \in Workers |-> <<>>]
    /\ events = [w \in Workers |-> <<>>]
    /\ rows_at_start = [w \in Workers |-> <<>>]
    /\ prior = [w \in Workers |-> <<>>]
    /\ first_record = [u \in Urls |-> <<>>]
    /\ price_text \in Texts
    /\ price_variant = "APP"
    /\ price_out = <<>>
    /\ price_pc = "in"

\* the price extraction of variant v runs on the text
PriceExtract(v) ==
    /\ price_pc = "in"
    /\ price_variant' = v
    /\ price_out' = price_search(SearchedText(v, price_text))
    /\ price_pc' = "out"
    /\ UNCHANGED <<price_text, started, api_key, csv_vars, req_vars>>

NextPrice == \E v \in {"APP", "ML", "NER"} : PriceExtract(v)

SpecPrice == InitPrice /\ [][NextPrice]_vars

\* ------------------------------ overlapping requests to using_LLM.py /extract
\* the two requests that overlap
Racers == {1, 2}

\* the requests in progress, each of which may still append a row
InFlight == {v \in Racers : pc[v] \notin {"idle", "done"}}

\* a request for using_LLM.py arrives while another may be in progress
\* (app.run serves each request on a thread of its own)
StartOverlapping(w) ==
    /\ Len(csv_rows) + Cardinality(InFlight) < MaxRows
    /\ Start(w)
    /\ variant'[w] = "LLM"

NextConc ==
    \/ StartMain
    \/ StartImported
    \/ \E w \in Racers :
         \/ StartOverlapping(w)
         \/ Finish(w)
         \/ LLM_Lookup(w)
         \/ LLM_Fetch(w)
         \/ LLM_Prepare(w)
         \/ LLM_Complete(w)
         \/ LLM_ParseSave(w)
         \/ LLM_Respond(w)

SpecConc == Init /\ [][NextConc]_vars

\* ================================================================= claims
Has(w, e) == \E i \in 1 .. Len(events[w]) : events[w][i] = e

Count(w, e) == Cardinality({i \in 1 .. Len(events[w]) : events[w][i] = e})

Answered(w) == pc[w] = "done" /\ response[w] # <<>>

Reply(w) == response[w][1]

\* the stage of worker w raised an exception
Failed(w) == "error" \in DOMAIN result[w]

\* C1: once a request for u has completed successfully, every later request
\* for u makes no fetch, recognizer or LLM call and is answered 200 with the
\* record the first request returned.  Stated for extract_car_data run from
\* __main__ (header row present); extract in app.py has no cache at all.
C1_CacheHitShortCircuit ==
    \A w \in Workers :
        (variant[w] = "LLM" /\ started = "main" /\ prior[w] # <<>>) =>
            /\ ~Has(w, "fetch") /\ ~Has(w, "ner") /\ ~Has(w, "llm")
            /\ Answered(w) =>
                  /\ Reply(w).status = 200
                  /\ Reply(w).body.success
                  /\ Reply(w).body.data = prior[w][1]

\* the request of worker w is past step 4 of extract in app.py
Reconciled(w) == variant[w] = "APP" /\ local[w].working # <<>>

\* the record of step 4, before any LLM value was merged
Base(w) == BaseResult(local[w].rule_data, local[w].ner_data)

\* field k of a record holds a value (not None, not empty)
Populated(rec, k) ==
    IF k \in {"model_name", "variant", "description", "price"}
    THEN rec[k] # NoneVal /\ rec[k] # ""
    ELSE IF k = "ner" THEN TRUE
    ELSE rec[k] # <<>>

\* C2: every field that rule extraction (or NER) populated before the LLM
\* call keeps its rule-derived value in the final record of extract (app.py).
C2_MergeKeepsRuleFields ==
    \A w \in Workers :
        (Reconciled(w) /\ pc[w] \in {"return", "done"}) =>
            \A k \in {"price", "specifications", "features", "images", "ner"} :
                Populated(Base(w), k) => local[w].working[k] = Base(w)[k]

\* at least one of model_name, variant, description is None or empty
RequiredFieldMissing(rec) ==
    \E k \in {"model_name", "variant", "description"} : ~Populated(rec, k)

\* C3: in extract (app.py) llm_fallback is invoked iff a required field is
\* missing or empty in the combined record, and llm_used in the response is
\* true exactly when llm_fallback was invoked.
C3_LlmIffMissing ==
    \A w \in Workers :
        Reconciled(w) =>
            /\ pc[w] = "llm" => RequiredFieldMissing(Base(w))
            /\ pc[w] \in {"return", "raise", "done"} =>
                  (Has(w, "llm") <=> RequiredFieldMissing(Base(w)))
            /\ (Answered(w) /\ Reply(w).status = 200) =>
                  (Reply(w).body.llm_used <=> Has(w, "llm"))

C3_Witness ==
    \E w \in Workers :
        /\ Reconciled(w) /\ Answered(w) /\ Reply(w).status = 200
        /\ RequiredFieldMissing(Base(w))
        /\ Has(w, "llm") /\ Reply(w).body.llm_used

\* C4: within one request the fetch, the recognizer and the LLM completion
\* are each called at most once, and once a stage has failed the request
\* makes no further call: it is at its response.
C4_NoRetry ==
    \A w \in Workers :
        /\ \A e \in {"fetch", "ner", "llm"} : Count(w, e) <= 1
        /\ Failed(w) => pc[w] \in {"return", "raise", "done"}

C4_Witness ==
    \E w \in Workers :
        /\ Answered(w) /\ Failed(w)
        /\ Count(w, "fetch") = 1 /\ Count(w, "llm") = 1

\* C5: extract_car_data saves only on a run whose fetch succeeded, whose API
\* key was present, whose LLM call returned and whose payload parsed; a
\* request that ends with success = false leaves the cache rows as they were.
C5_FailuresNeverCached ==
    \A w \in Workers :
        variant[w] = "LLM" =>
            /\ Has(w, "store") =>
                  /\ Has(w, "fetch") /\ Has(w, "llm") /\ api_key
                  /\ local[w].completion # <<>>
                  /\ local[w].completion[1].content.json
                  /\ ~Failed(w)
            /\ (Failed(w) /\ pc[w] \in {"return", "done"}) =>
                  /\ csv_rows = rows_at_start[w]
                  /\ ~Has(w, "store")

C5_Witness ==
    \E w \in Workers :
        /\ variant[w] = "LLM" /\ Answered(w) /\ Failed(w)
        /\ Has(w, "llm") /\ local[w].completion # <<>>
        /\ csv_rows # <<>>

\* C6: when a stage of a request failed, the response carries success = false
\* and an error message and no record data, in every /extract variant.
C6_FailureBody ==
    \A w \in Workers :
        (Answered(w) /\ Failed(w)) =>
            /\ "success" \in DOMAIN Reply(w).body
            /\ Reply(w).body.success = FALSE
            /\ "error" \in DOMAIN Reply(w).body
            /\ "data" \notin DOMAIN Reply(w).body

\* C7: the status is 400 (success = false) iff the body is missing or has no
\* url key, and then nothing else happened; 500 iff the pipeline failed; 200
\* with success = true iff it succeeded; success = false never comes with 200.
\* (What the body of a failure response carries is the subject of C6.)
C7_StatusByOutcome ==
    \A w \in Workers :
        Answered(w) =>
            /\ Reply(w).status = 400 <=> MissingUrl(body[w])
            /\ Reply(w).status = 400 =>
                  /\ Reply(w).body.success = FALSE
                  /\ events[w] = <<>> /\ csv_rows = rows_at_start[w]
            /\ Reply(w).status = 500 <=> (~MissingUrl(body[w]) /\ Failed(w))
            /\ Reply(w).status = 200 <=> (~MissingUrl(body[w]) /\ ~Failed(w))
            /\ Reply(w).status = 200 => Reply(w).body.success = TRUE

\* the rows of a sequence of cache rows whose url cell is exactly u
RowsFor(rows, u) == {i \in 1 .. Len(rows) : rows[i][1] = u}

\* extract_car_data returned a success result to worker w
Succeeded(w) ==
    variant[w] = "LLM" /\ pc[w] \in {"return", "done"} /\ "data" \in DOMAIN result[w]

\* the request of worker w was answered from the cache
ServedFromCache(w) == Succeeded(w) /\ ~Has(w, "fetch")

\* C8: a record returned by the lookup comes from a row whose url cell equals
\* the requested string exactly; a request whose URL equals the url of no row
\* (e.g. a stored URL plus a trailing slash) is never served from the cache:
\* if it succeeds it fetched, called the LLM and appended its own row.
C8_ExactKeys ==
    \A w \in Workers :
        /\ ServedFromCache(w) =>
              \E i \in RowsFor(csv_rows, local[w].url) :
                  Loads(csv_rows[i][5]) = result[w].data
        /\ (Succeeded(w) /\ RowsFor(rows_at_start[w], local[w].url) = {}) =>
              /\ Has(w, "fetch") /\ Has(w, "llm") /\ Has(w, "store")
              /\ csv_rows = Append(rows_at_start[w],
                                   CsvRow(local[w].url, local[w].completion[1].usage,
                                          result[w].data))

\* the cache holds a row for a URL and a separate row for the same URL with a
\* trailing slash, the second written by the request now answered
C8_Witness ==
    \E w \in Workers :
        /\ variant[w] = "LLM" /\ Answered(w) /\ ~Failed(w)
        /\ local[w].url = "https://x.com/a/"
        /\ RowsFor(rows_at_start[w], "https://x.com/a") # {}
        /\ RowsFor(rows_at_start[w], "https://x.com/a/") = {}
        /\ RowsFor(csv_rows, "https://x.com/a/") # {}

\* C9: every step leaves the rows already in the cache file unchanged and in
\* place; a step that writes appends exactly one row, and it is the save step
\* of a request whose payload parsed.
C9_AppendOnly ==
    [][ /\ Len(csv_rows') >= Len(csv_rows)
        /\ SubSeq(csv_rows', 1, Len(csv_rows)) = csv_rows
        /\ Len(csv_rows') <= Len(csv_rows) + 1
        /\ (csv_exists => csv_exists')
        /\ (csv_exists => csv_header' = csv_header)
        /\ csv_rows' # csv_rows =>
              \E w \in Workers :
                  /\ pc[w] = "parse" /\ pc'[w] = "return"
                  /\ ~("error" \in DOMAIN result'[w])
      ]_vars

C9_Witness ==
    /\ Len(csv_rows) >= 2
    /\ \E w \in Workers : Answered(w) /\ Has(w, "store")

\* a request served by a pipeline that calls the LLM
LlmBacked(w) == variant[w] \in {"LLM", "APP"}

RecordFields == {"model_name", "variant", "price", "specifications",
                 "features", "images", "description"}

\* C11: every record returned with success = true by extract (app.py) or by
\* extract_car_data (using_LLM.py), fresh or from the cache, contains each of
\* the seven fields, whatever keys the LLM completion returned.
C11_SevenFields ==
    \A w \in Workers :
        (LlmBacked(w) /\ Answered(w) /\ Reply(w).status = 200) =>
            RecordFields \subseteq DOMAIN Reply(w).body.data

\* no two elements of seq are equal
NoDuplicates(seq) == \A i, j \in 1 .. Len(seq) : seq[i] = seq[j] => i = j

\* C12: the features list of every produced record holds no two equal texts
\* (first occurrence kept), for the list items of using_ML.py and for the
\* keyword blocks of app.py, before and after the LLM merge.
C12_FeaturesDistinct ==
    \A w \in Workers :
        /\ (variant[w] = "ML" /\ "data" \in DOMAIN result[w]) =>
              NoDuplicates(result[w].data.features)
        /\ (Reconciled(w) /\ "features" \in DOMAIN local[w].working) =>
              NoDuplicates(local[w].working.features)

\* no source of the list begins with "data:"
NoDataUri(images) == \A i \in 1 .. Len(images) : ~StartsWith(images[i], DataPrefix)

\* C13: no image source beginning with "data:" is in the images of a produced
\* record or in the image list handed to the LLM prompt, in any variant.
C13_NoDataUri ==
    \A w \in Workers :
        /\ (variant[w] = "LLM" /\ local[w].prompt # <<>>) =>
              NoDataUri(local[w].prompt[1].images)
        /\ (variant[w] \in {"ML", "NER"} /\ "data" \in DOMAIN result[w]) =>
              NoDataUri(result[w].data.images)
        /\ (Reconciled(w) /\ "images" \in DOMAIN local[w].working) =>
              NoDataUri(local[w].working.images)

\* text holds, somewhere, a currency marker, at most one whitespace character
\* and then a numeric amount: digits with optional separators and an optional
\* decimal part, with at least one digit in it
ClaimedPrice(text) ==
    \E i \in 1 .. Len(text) : \E ws \in {0, 1} :
        LET m == MarkerLen(text, i)
            j == i + m + ws
            k == RunEnd(text, j, Digits \cup {","})
        IN  /\ m # 0
            /\ ws = 1 => At(text, i + m) \in Spaces
            /\ k > j
            /\ \/ \E q \in j .. k - 1 : At(text, q) \in Digits
               \/ At(text, k) = "." /\ At(text, k + 1) \in Digits

\* C14: extract_price(text) returns a value iff text contains a currency
\* marker, optionally one whitespace character, and then a numeric amount
\* that contains at least one digit; a marker followed only by separators
\* ("$,") yields nothing.
C14_PriceIffMarkerAmount ==
    (price_pc = "out" /\ price_variant = "APP") =>
        (price_out # <<>> <=> ClaimedPrice(price_text))

\* C15: in every variant the extracted price is the first match of the
\* pattern in the whole cleaned document text, in full, and it is absent
\* only if that text has no match.  (For using_HGBert.py the cleaned text is
\* the text with its whitespace runs collapsed.)
C15_FirstMatchOfWholeText ==
    price_pc = "out" =>
        price_out = price_search(IF price_variant = "NER"
                                 THEN Collapse(price_text) ELSE price_text)

\* the surface texts of the ORG / MISC entities, in recognizer order
OrgMiscWords(entities) ==
    LET kept == SelectSeq(entities, LAMBDA e : e.entity_group \in {"ORG", "MISC"})
    IN  [i \in 1 .. Len(kept) |-> kept[i].word]

\* the first CandidateCap distinct candidates in order of first appearance
FirstDistinct(entities) == Take(Dedupe(OrgMiscWords(entities)), CandidateCap)

\* C16: the candidate list (model_candidates in app.py, possible_model_names
\* in using_HGBert.py) holds only ORG / MISC surface texts, no duplicate, at
\* most 10 elements, and is the first K distinct candidates in order of first
\* appearance, so one recognizer output always gives one list.  (The recorded
\* entities are the whole recognizer output: NerOutputs stay below both
\* entity caps.)
C16_CandidatesByFirstAppearance ==
    \A w \in Workers :
        /\ (variant[w] = "APP" /\ local[w].ner_data # <<>>) =>
              local[w].ner_data.model_candidates
                  = FirstDistinct(local[w].ner_data.entities)
        /\ (variant[w] = "NER" /\ "data" \in DOMAIN result[w]) =>
              result[w].data.possible_model_names
                  = FirstDistinct(result[w].data.entities)

\* C17: whenever the cache file exists its first row is the header, so every
\* appended row is a data row that get_cached_result reads back with a url
\* field, whether or not init_csv ran before the first save_to_csv.
C17_HeaderIsFirstRow ==
    csv_exists => (csv_header /\ DataRows = csv_rows /\ Column("url") = 1)

IsPrefix(a, b) == Len(a) <= Len(b) /\ \A i \in 1 .. Len(a) : a[i] = b[i]

\* list is all cut to at most cap elements
Capped(list, all, cap) == Len(list) <= cap /\ IsPrefix(list, all)

\* C18: the features list and the images list of every produced record are
\* prefixes, no longer than a fixed cap, of the accepted candidates in
\* document order (features: 5 in app.py, 20 in using_ML.py; images: 10 in
\* using_ML.py and using_HGBert.py), and the images list that extract of
\* app.py returns never exceeds a fixed cap.
C18_ListsCapped ==
    \A w \in Workers :
        /\ (variant[w] = "ML" /\ "data" \in DOMAIN result[w]) =>
              /\ Len(result[w].data.features) <= FeatureCapMl
              /\ Capped(result[w].data.images, extract_images(local[w].soup), ImageCap)
        /\ (variant[w] = "NER" /\ "data" \in DOMAIN result[w]) =>
              Capped(result[w].data.images, extract_images(local[w].soup), ImageCap)
        /\ (variant[w] = "APP" /\ local[w].rule_data # <<>>) =>
              Len(local[w].rule_data.features) <= FeatureCapApp
        /\ (variant[w] = "APP" /\ Answered(w) /\ Reply(w).status = 200) =>
              Len(Reply(w).body.data.images) <= ImageCap

\* the tags sanitization is to remove
RemovedTags == {"script", "style", "nav", "footer", "aside", "noscript"}

Sanitized(soup) == \A i \in 1 .. Len(soup) : soup[i].tag \notin RemovedTags

\* C19: in every variant the tree that text, images, structure and the
\* prompt are taken from has no element tagged script, style, nav, footer,
\* aside or noscript; for extract_car_data of using_LLM.py this is the tree
\* the prompt is built from, and the prompt text is the text of that tree.
C19_SanitizedBeforeExtraction ==
    \A w \in Workers :
        /\ (variant[w] \in {"APP", "ML", "NER"} /\ local[w].soup # <<>>) =>
              Sanitized(local[w].soup)
        /\ (variant[w] = "LLM" /\ local[w].prompt # <<>>) =>
              /\ Sanitized(local[w].soup)
              /\ local[w].prompt[1].content
                   = Take(get_text(Decompose(local[w].soup, RemovedTags)), ContentLimit)

\* worker w missed the cache, called the LLM and appended its row
MissedAndStored(w) ==
    /\ variant[w] = "LLM"
    /\ Has(w, "lookup") /\ Has(w, "fetch") /\ Has(w, "llm") /\ Has(w, "store")

\* two overlapping requests for one URL that was in no row when either
\* started both missed, both called the LLM and both appended, with records
\* that differ
BothMissed ==
    /\ \A w \in Racers :
          /\ MissedAndStored(w)
          /\ local[w].url = local[1].url
          /\ rows_at_start[w] = <<>>
    /\ result[1] # result[2]

\* C20: two concurrent requests for one uncached URL can both miss, both
\* call the LLM and both append, which leaves two entries for the URL; from
\* then on get_cached_result returns the record of the entry appended first.
C20_RaceKeepsFirst ==
    /\ BothMissed => Cardinality(RowsFor(csv_rows, local[1].url)) = 2
    /\ \A u \in Urls :
          Cardinality(RowsFor(csv_rows, u)) >= 2 =>
              LET first == CHOOSE i \in RowsFor(csv_rows, u) :
                              \A j \in RowsFor(csv_rows, u) : i <= j
              IN  get_cached_result(u)
                    = [exc |-> "", value |-> Some(Loads(csv_rows[first][5]))]

\* the record stored in the earliest-appended row whose url is u
EarliestRecord(u) ==
    LET first == CHOOSE i \in RowsFor(csv_rows, u) :
                    \A j \in RowsFor(csv_rows, u) : i <= j
    IN  Loads(csv_rows[first][5])

\* C21: after save_to_csv(u, usage, r) with no earlier entry for u,
\* get_cached_result(u) returns a record equal to r; when several entries
\* have url u it returns the record of the earliest-appended one; and it
\* returns absent exactly when no entry has url u.
C21_StoreLookupRoundTrip ==
    /\ \A w \in Workers :
          (MissedAndStored(w) /\ RowsFor(rows_at_start[w], local[w].url) = {}) =>
              get_cached_result(local[w].url)
                  = [exc |-> "", value |-> Some(result[w].data)]
    /\ \A u \in Urls :
          IF RowsFor(csv_rows, u) = {}
          THEN get_cached_result(u) = [exc |-> "", value |-> <<>>]
          ELSE get_cached_result(u) = [exc |-> "", value |-> Some(EarliestRecord(u))]

\* C22: when requests are handled strictly one after another, the cache never
\* holds two entries with the same url, whatever URLs are requested and
\* whatever record the LLM returns (an empty object included).
C22_OneEntryPerUrl ==
    \A u \in Urls : Cardinality(RowsFor(csv_rows, u)) <= 1
====
